---- MODULE Spec2Model ----
(***************************************************************************)
(* Model of the content streaming helpers (StaticContent,                  *)
(* StaticContentStream over a GridFS-like item) and of the courseware      *)
(* utilities (verified-upgrade eligibility, financial-assistance proxy).   *)
(***************************************************************************)
EXTENDS Integers, Sequences, FiniteSets, TLC

\* ---------------------------------------------------------------- bounds
MaxData == 4        \* longest content held by the byte source
MaxChunk == 2       \* largest per-instance chunk size tried
MaxTick == 5        \* last instant of the clock of the upgrade model
TicksPerDay == 2    \* instants per calendar day of that clock

\* The declared length may exceed what the source holds (a short source).
MaxLen == MaxData + 1

Bytes == {"a", "b"}
Consumers == {1, 2}

\* ----------------------------------------------------------- python values
\* None is the empty tuple; a None field inside a structure is the string "None".
None == <<>>
NoneField == "None"

Min(a, b) == IF a <= b THEN a ELSE b

\* Python's s[a:b] for 0 <= a and 0 <= b (offsets count from 0).
PySlice(s, a, b) ==
    LET hi == Min(b, Len(s))
    IN  IF a >= hi THEN <<>> ELSE [i \in 1..(hi - a) |-> s[a + i]]

RECURSIVE Concat(_)
Concat(chunks) ==
    IF chunks = <<>> THEN <<>> ELSE Head(chunks) \o Concat(Tail(chunks))

RECURSIVE SumLen(_)
SumLen(chunks) ==
    IF chunks = <<>> THEN 0 ELSE Len(Head(chunks)) + SumLen(Tail(chunks))

Contents == UNION {[1..n -> Bytes] : n \in 0..MaxData}

\* ------------------------------------------------------------- variables
VARIABLES
    data,                \* FakeGridFsItem.data
    cursor,              \* FakeGridFsItem.cursor
    length,              \* StaticContentStream.length
    chunk_size,          \* the instance's chunk size (STREAM_DATA_CHUNK_SIZE)
    thumbnail_arg,       \* the thumbnail_location argument given to the constructor
    thumbnail_location,  \* StaticContent.thumbnail_location
    gens,                \* per consumer: the generator it is iterating
    upgrade,             \* last call of can_show_verified_upgrade
    fa_enabled,          \* FinancialAssistanceConfiguration.current().enabled
    fa                   \* last call of a financial-assistance function

vars == <<data, cursor, length, chunk_size, thumbnail_arg, thumbnail_location,
          gens, upgrade, fa_enabled, fa>>

\* ---------------------------------------------------------- FakeGridFsItem
\* A mutation of seek: the cursor is left where it was.
seekKeepsCursor(cur, position) == cur

\* seek(position): the cursor is set absolutely.
seek(cur, position) == position

\* A mutation of read: the slice's end is taken inclusively.
readInclusiveEnd(d, cur, n) ==
    [chunk |-> PySlice(d, cur, cur + n + 1), cursor |-> cur + n]

\* A mutation of read: the cursor is not moved.
readKeepsCursor(d, cur, n) ==
    [chunk |-> PySlice(d, cur, cur + n), cursor |-> cur]

\* read(chunk_size): data[cursor : cursor + chunk_size]; the cursor advances by
\* chunk_size whatever was available.
read(d, cur, n) ==
    [chunk |-> PySlice(d, cur, cur + n), cursor |-> cur + n]

\* ------------------------------------------------------------ StaticContent
NOT_GIVEN == "omitted"
ThumbArgs == {<<NOT_GIVEN>>, None, <<"thumb.jpg">>}

\* Location built from a raw value: every field of Location(None) is None.
Location(v) ==
    IF v = None THEN <<"Location", NoneField, NoneField>>
    ELSE <<"Location", "thumbnail", v[1]>>

\* A mutation of the constructor: the argument is always wrapped in a Location.
StaticContentInitAlwaysWraps(arg) ==
    Location(IF arg = <<NOT_GIVEN>> THEN None ELSE arg)

\* StaticContent.__init__'s handling of thumbnail_location (default None).
StaticContentInit(arg) ==
    LET given == IF arg = <<NOT_GIVEN>> THEN None ELSE arg
    IN  IF given = None THEN None ELSE Location(given)

\* ------------------------------------------------------- StaticContentStream
\* A generator object.  position: the next offset to deliver; chunks: what it
\* has yielded so far; short: a read returned fewer bytes than requested.
\* History kept for the properties only: cursor0 is the source cursor when the
\* generator was created, disturbed says that another consumer's pull moved
\* the shared cursor after this generator's first pull.
NoGen ==
    [kind |-> "none", st |-> "none", position |-> 0, first_byte |-> 0,
     last_byte |-> 0, chunks |-> <<>>, short |-> FALSE, cursor0 |-> 0,
     disturbed |-> FALSE]

\* stream_data(): a generator; nothing runs before the first pull.
NewStreamData ==
    [NoGen EXCEPT !.kind = "full", !.st = "fresh"]

\* stream_data_in_range(first_byte, last_byte): likewise.
NewStreamDataInRange(first, last) ==
    [NoGen EXCEPT !.kind = "range", !.st = "fresh", !.position = first,
                  !.first_byte = first, !.last_byte = last]

\* One past the last offset the generator has to deliver.
EndOf(g, len) == IF g.kind = "full" THEN len ELSE g.last_byte + 1

\* A mutation of the pull: a short read is yielded like any other chunk.
PullNoShortReadCheck(g, d, cur, len, csize) ==
    IF g.position >= EndOf(g, len)
    THEN [gen |-> [g EXCEPT !.st = "done"], cursor |-> cur]
    ELSE
        LET n == Min(csize, EndOf(g, len) - g.position)
            at == IF g.kind = "full" \/ g.st = "fresh"
                  THEN seek(cur, g.position) ELSE cur
            r == read(d, at, n)
        IN  [gen |-> [g EXCEPT !.st = "running",
                               !.position = g.position + n,
                               !.chunks = Append(g.chunks, r.chunk),
                               !.short = g.short \/ Len(r.chunk) < n],
             cursor |-> r.cursor]

\* One pull (next()) on a generator g over the source (d, cur).
\*   stream_data: seeks to the next offset, then reads min(chunk size, rest).
\*   stream_data_in_range: seeks to first_byte on the first pull only, then
\*   reads min(chunk size, bytes left up to last_byte).
\*   A read that returns fewer bytes than requested ends the stream in error.
Pull(g, d, cur, len, csize) ==
    IF g.position >= EndOf(g, len)
    THEN [gen |-> [g EXCEPT !.st = "done"], cursor |-> cur]
    ELSE
        LET n == Min(csize, EndOf(g, len) - g.position)
            at == IF g.kind = "full" \/ g.st = "fresh"
                  THEN seek(cur, g.position) ELSE cur
            r == read(d, at, n)
        IN  IF Len(r.chunk) < n
            THEN [gen |-> [g EXCEPT !.st = "error", !.short = TRUE],
                  cursor |-> r.cursor]
            ELSE [gen |-> [g EXCEPT !.st = "running",
                                    !.position = g.position + n,
                                    !.chunks = Append(g.chunks, r.chunk)],
                  cursor |-> r.cursor]

\* ----------------------------------------------------------------- actions
\* No call of can_show_verified_upgrade.
NoUpgradeCall ==
    [group |-> None, enrollment |-> None, modes |-> <<>>, upsell |-> {},
     now |-> 0, result |-> None]

otherVarsIdle == upgrade = NoUpgradeCall /\ fa_enabled = FALSE /\ fa = None

InitStream ==
    /\ data \in Contents
    /\ cursor = 0
    /\ length \in 0..MaxLen
    /\ chunk_size \in 1..MaxChunk
    /\ thumbnail_arg \in ThumbArgs
    /\ thumbnail_location = StaticContentInit(thumbnail_arg)
    /\ gens = [c \in Consumers |-> NoGen]
    /\ otherVarsIdle

\* A consumer calls stream_data(), dropping whatever it was iterating.
StartStreamData(c) ==
    /\ gens' = [gens EXCEPT ![c] = [NewStreamData EXCEPT !.cursor0 = cursor]]
    /\ UNCHANGED <<data, cursor, length, chunk_size, thumbnail_arg,
                   thumbnail_location, upgrade, fa_enabled, fa>>

\* A consumer calls stream_data_in_range with a valid range.
StartStreamDataInRange(c) ==
    /\ \E first \in 0..(length - 1) : \E last \in first..(length - 1) :
          gens' = [gens EXCEPT ![c] =
                      [NewStreamDataInRange(first, last) EXCEPT !.cursor0 = cursor]]
    /\ UNCHANGED <<data, cursor, length, chunk_size, thumbnail_arg,
                   thumbnail_location, upgrade, fa_enabled, fa>>

\* A consumer asks its generator for the next chunk.
PullNext(c) ==
    /\ gens[c].st \in {"fresh", "running"}
    /\ LET r == Pull(gens[c], data, cursor, length, chunk_size)
       IN  /\ gens' = [o \in Consumers |->
                       IF o = c THEN r.gen
                       ELSE IF gens[o].st = "running" /\ r.cursor # cursor
                            THEN [gens[o] EXCEPT !.disturbed = TRUE]
                            ELSE gens[o]]
           /\ cursor' = r.cursor
    /\ UNCHANGED <<data, length, chunk_size, thumbnail_arg,
                   thumbnail_location, upgrade, fa_enabled, fa>>

\* One reader, one consumer.
Next ==
    \/ StartStreamData(1)
    \/ StartStreamDataInRange(1)
    \/ PullNext(1)

Spec == InitStream /\ [][Next]_vars

\* One reader shared by two consumers whose pulls interleave; each consumer
\* iterates one stream.
NextShared ==
    \E c \in Consumers :
        \/ gens[c].st = "none" /\ StartStreamData(c)
        \/ gens[c].st = "none" /\ StartStreamDataInRange(c)
        \/ PullNext(c)

\* The shared reader is built over a source holding exactly `length` bytes.
InitShared ==
    /\ InitStream
    /\ length = Len(data)
    /\ thumbnail_arg = <<NOT_GIVEN>>

SpecShared == InitShared /\ [][NextShared]_vars

\* ------------------------------------------------- verified-upgrade message
\* An optional value is None (<<>>) or the one-element tuple <<v>>.
Some(v) == <<v>>
Modes == {"audit", "honor", "verified"}
GroupIds == {1, 2}
NoSlug == ""    \* a falsy slug (None or the empty string)

Last(s) == s[Len(s)]

\* datetime.date(): the calendar day an instant falls on.
DateOf(t) == t \div TicksPerDay

\* settings.COURSE_ENROLLMENT_MODES.values(): mode entries with distinct ids.
ModeEntries == [id : GroupIds, slug : {"audit", "verified", NoSlug}]
ModeSettings ==
    {<<>>} \cup {<<e>> : e \in ModeEntries}
           \cup {p \in ModeEntries \X ModeEntries : p[1].id # p[2].id}

Enrollments ==
    [upgrade_deadline : {None} \cup {Some(t) : t \in 0..MaxTick},
     is_active : BOOLEAN, mode : Modes]

\* is_mode_upsellable: the slug of the last mode entry whose id is the group's
\* (none when the user has no group or no entry matches), then
\* `not current_mode or current_mode in UPSELL_TO_VERIFIED_MODES`.
is_mode_upsellable(group, modes, upsell) ==
    LET matching == SelectSeq(modes, LAMBDA m : group # None /\ m.id = group[1])
        current_mode == IF group # None /\ matching # <<>>
                        THEN Last(matching).slug ELSE NoSlug
    IN  current_mode = NoSlug \/ current_mode \in upsell

\* A mutation of can_show_verified_upgrade: the deadline day no longer qualifies.
can_show_verified_upgrade_deadline_day_excluded(group, enrollment, modes, upsell, now) ==
    IF enrollment = None THEN FALSE
    ELSE IF ~is_mode_upsellable(group, modes, upsell) THEN FALSE
    ELSE IF enrollment[1].upgrade_deadline = None THEN FALSE
    ELSE IF DateOf(now) >= DateOf(enrollment[1].upgrade_deadline[1]) THEN FALSE
    ELSE enrollment[1].is_active /\ enrollment[1].mode \in upsell

\* can_show_verified_upgrade(user, enrollment, course).
can_show_verified_upgrade(group, enrollment, modes, upsell, now) ==
    IF enrollment = None THEN FALSE
    ELSE IF ~is_mode_upsellable(group, modes, upsell) THEN FALSE
    ELSE IF enrollment[1].upgrade_deadline = None THEN FALSE
    ELSE IF DateOf(now) > DateOf(enrollment[1].upgrade_deadline[1]) THEN FALSE
    ELSE enrollment[1].is_active /\ enrollment[1].mode \in upsell

\* The reader of the states in which only the courseware utilities act.
streamIdle ==
    /\ data = <<>>
    /\ cursor = 0
    /\ length = 0
    /\ chunk_size = 1
    /\ thumbnail_arg = <<NOT_GIVEN>>
    /\ thumbnail_location = StaticContentInit(thumbnail_arg)
    /\ gens = [c \in Consumers |-> NoGen]

\* The arguments and settings of one call, not yet made.
InitUpgrade ==
    /\ streamIdle
    /\ \E group \in {None} \cup {Some(i) : i \in GroupIds},
          enrollment \in {None} \cup {Some(e) : e \in Enrollments},
          modes \in ModeSettings,
          upsell \in SUBSET Modes,
          now \in 0..MaxTick :
          upgrade = [group |-> group, enrollment |-> enrollment,
                     modes |-> modes, upsell |-> upsell, now |-> now,
                     result |-> None]
    /\ fa_enabled = FALSE
    /\ fa = None

\* A view asks whether the upgrade message can be shown.
CallCanShowVerifiedUpgrade ==
    /\ upgrade.result = None
    /\ upgrade' = [upgrade EXCEPT !.result =
                       Some(can_show_verified_upgrade(
                                upgrade.group, upgrade.enrollment, upgrade.modes,
                                upgrade.upsell, upgrade.now))]
    /\ UNCHANGED <<data, cursor, length, chunk_size, thumbnail_arg,
                   thumbnail_location, gens, fa_enabled, fa>>

NextUpgrade == CallCanShowVerifiedUpgrade

SpecUpgrade == InitUpgrade /\ [][NextUpgrade]_vars

\* ------------------------------------------------------ financial assistance
HTTP_200_OK == 200
HTTP_400_BAD_REQUEST == 400
HTTP_404_NOT_FOUND == 404
StatusCodes == {HTTP_200_OK, 201, HTTP_400_BAD_REQUEST, 403, HTTP_404_NOT_FOUND, 500}

NOT_ENABLED == "Financial Assistance configuration is not enabled"

\* What response.json() carries: get('is_eligible'), get('reason'), get('message').
Responses ==
    [status_code : StatusCodes, is_eligible : {"True", "False", "None"},
     reason : {"None", "a reason"}, message : {"None", "a message"}]

\* A returned value is a tuple: a pair <<flag, detail>>, or None when the
\* function ends without a return statement.
is_eligible_for_financial_aid(enabled, response) ==
    IF enabled
    THEN IF response.status_code = HTTP_200_OK
         THEN <<response.is_eligible, response.reason>>
         ELSE IF response.status_code = HTTP_400_BAD_REQUEST
              THEN <<"False", response.message>>
              ELSE None
    ELSE <<"False", NOT_ENABLED>>

get_financial_assistance_application_status(enabled, response) ==
    IF enabled
    THEN IF response.status_code = HTTP_200_OK
         THEN <<"True", "response.json()">>
         ELSE IF response.status_code \in {HTTP_400_BAD_REQUEST, HTTP_404_NOT_FOUND}
              THEN <<"False", response.message>>
              ELSE None
    ELSE <<"False", NOT_ENABLED>>

\* Here the return that closes the function is outside the `if`, so an enabled
\* call whose status is neither 200 nor 400 falls through to it.
create_financial_assistance_application(enabled, response) ==
    LET closing == <<"False", NOT_ENABLED>>
    IN  IF enabled
        THEN IF response.status_code = HTTP_200_OK
             THEN <<"True", "None">>
             ELSE IF response.status_code = HTTP_400_BAD_REQUEST
                  THEN <<"False", response.message>>
                  ELSE closing
        ELSE closing

InitFA ==
    /\ streamIdle
    /\ upgrade = NoUpgradeCall
    /\ fa_enabled \in BOOLEAN
    /\ fa = None

\* An administrator saves a new FinancialAssistanceConfiguration.
SetConfiguration ==
    /\ fa_enabled' = ~fa_enabled
    /\ UNCHANGED <<data, cursor, length, chunk_size, thumbnail_arg,
                   thumbnail_location, gens, upgrade, fa>>

\* The record of a call: the request is sent only when the configuration is
\* enabled, and then the remote service answers with any response.
Called(fn, response, result) ==
    /\ fa' = Some([fn |-> fn, enabled |-> fa_enabled,
                   response |-> IF fa_enabled THEN Some(response) ELSE None,
                   result |-> result])
    /\ UNCHANGED <<data, cursor, length, chunk_size, thumbnail_arg,
                   thumbnail_location, gens, upgrade, fa_enabled>>

CallIsEligible ==
    \E response \in Responses :
        Called("is_eligible_for_financial_aid", response,
               is_eligible_for_financial_aid(fa_enabled, response))

CallApplicationStatus ==
    \E response \in Responses :
        Called("get_financial_assistance_application_status", response,
               get_financial_assistance_application_status(fa_enabled, response))

CallCreateApplication ==
    \E response \in Responses :
        Called("create_financial_assistance_application", response,
               create_financial_assistance_application(fa_enabled, response))

NextFA ==
    \/ SetConfiguration
    \/ CallIsEligible
    \/ CallApplicationStatus
    \/ CallCreateApplication

SpecFA == InitFA /\ [][NextFA]_vars

\* ------------------------------------------------------------------ claims
\* The generator of the single consumer of Spec.
G == gens[1]

\* The bytes a generator has to deliver in all.
Promised(g) == EndOf(g, length) - g.first_byte

\* The number of chunks stream_data() yields for length L and chunk size c.
NumChunks(L, c) == IF L = 0 THEN 0 ELSE ((L - 1) \div c) + 1

\* C1: over a source holding exactly `length` bytes stream_data() never fails,
\* never yields an empty chunk, and once exhausted has yielded chunks whose
\* lengths sum to `length`; for length 0 it has yielded no chunk at all.
C1_StreamDataTotal ==
    (G.kind = "full" /\ Len(data) = length) =>
        /\ G.st # "error"
        /\ \A i \in 1..Len(G.chunks) : Len(G.chunks[i]) > 0
        /\ G.st = "done" =>
              /\ SumLen(G.chunks) = length
              /\ (length = 0 => G.chunks = <<>>)

C1_Witness ==
    /\ G.kind = "full" /\ G.st = "done"
    /\ Len(data) = length
    /\ Len(G.chunks) >= 2

\* C2: for a valid range over a source holding the content, an exhausted
\* stream_data_in_range(first_byte, last_byte) has yielded chunks whose lengths
\* sum to last_byte - first_byte + 1, and it never fails.
C2_RangeTotal ==
    (G.kind = "range" /\ Len(data) >= length) =>
        /\ G.st # "error"
        /\ G.st = "done" =>
              SumLen(G.chunks) = G.last_byte - G.first_byte + 1

C2_Witness ==
    /\ G.kind = "range" /\ G.st = "done"
    /\ Len(data) >= length
    /\ Len(G.chunks) >= 2
    /\ (G.last_byte - G.first_byte + 1) % chunk_size # 0

\* C3: the chunks of stream_data_in_range(a, b), concatenated in order, are at
\* every moment the slice of the content from a up to the stream's position,
\* and content[a..b] once exhausted, wherever the cursor was before the call.
C3_RangeIsSlice ==
    (G.kind = "range" /\ Len(data) >= length) =>
        /\ Concat(G.chunks) = PySlice(data, G.first_byte, G.position)
        /\ G.st = "done" =>
              Concat(G.chunks) = PySlice(data, G.first_byte, G.last_byte + 1)

C3_Witness ==
    /\ G.kind = "range" /\ G.st = "done"
    /\ Len(data) >= length
    /\ G.cursor0 # G.first_byte
    /\ G.first_byte > 0
    /\ Len(G.chunks) >= 2

\* C4: the chunks of stream_data(), concatenated in order, are at every moment
\* a prefix of the content and the whole content once exhausted, wherever the
\* cursor was when iteration started.
C4_StreamDataRoundTrip ==
    (G.kind = "full" /\ Len(data) = length) =>
        /\ G.st # "error"
        /\ Concat(G.chunks) = PySlice(data, 0, G.position)
        /\ G.st = "done" => Concat(G.chunks) = data

C4_Witness ==
    /\ G.kind = "full" /\ G.st = "done"
    /\ Len(data) = length
    /\ G.cursor0 > 0
    /\ Len(G.chunks) >= 2

\* C5: a read that returns fewer bytes than requested ends the stream in an
\* error; a stream never completes normally with fewer bytes than promised.
C5_ShortReadIsError ==
    /\ G.short => G.st = "error"
    /\ G.st = "done" => SumLen(G.chunks) = Promised(G)

C5_Witness ==
    /\ G.st = "error" /\ G.short
    /\ Len(data) < length
    /\ Len(G.chunks) >= 1

\* C6: constructed with thumbnail_location None, or without the argument, the
\* content's thumbnail_location is None, not a Location of None fields.
C6_ThumbnailNoneStaysNone ==
    thumbnail_arg \in {None, <<NOT_GIVEN>>} =>
        /\ thumbnail_location = None
        /\ thumbnail_location # Location(None)

C6_Witness ==
    /\ thumbnail_arg = None
    /\ thumbnail_location = None
    /\ G.st = "done"

\* C7: in stream_data() every chunk but the last has chunk_size bytes, the last
\* has L - c * floor((L - 1) / c) bytes, and the bytes yielded so far never
\* exceed L, also when the source holds more than L bytes.
C7_ChunkSizes ==
    (G.kind = "full" /\ Len(data) >= length) =>
        /\ SumLen(G.chunks) <= length
        /\ Len(G.chunks) <= NumChunks(length, chunk_size)
        /\ \A i \in 1..Len(G.chunks) :
              Len(G.chunks[i]) =
                  IF i < NumChunks(length, chunk_size) THEN chunk_size
                  ELSE length - chunk_size * ((length - 1) \div chunk_size)
        /\ G.st = "done" => Len(G.chunks) = NumChunks(length, chunk_size)

C7_Witness ==
    /\ G.kind = "full" /\ G.st = "done"
    /\ Len(data) > length
    /\ Len(G.chunks) >= 2
    /\ Len(Last(G.chunks)) < chunk_size

\* C8: on a shared reader a consumer can receive a chunk that is not the next
\* chunk of its own stream (the witness), and this happens only to a range
\* stream whose cursor another consumer's pull has moved (the formula).
C8_ForeignChunkOnlyWhenRaced ==
    \A c \in Consumers :
        (gens[c].kind = "full" \/ ~gens[c].disturbed) =>
            Concat(gens[c].chunks) =
                PySlice(data, gens[c].first_byte, gens[c].position)

C8_Witness ==
    \E c \in Consumers :
        /\ gens[c].kind = "range"
        /\ gens[c].disturbed
        /\ Concat(gens[c].chunks) #
               PySlice(data, gens[c].first_byte, gens[c].position)

\* The group's mode entry carries a slug that cannot be upsold.
GroupModeNotUpsellable(u) ==
    \E i \in 1..Len(u.modes) :
        /\ u.group # None
        /\ u.modes[i].id = u.group[1]
        /\ u.modes[i].slug # NoSlug
        /\ u.modes[i].slug \notin u.upsell

\* C9: can_show_verified_upgrade is False for enrollment None; otherwise it is
\* true exactly when the mode is upsellable, a deadline is set, today's date is
\* not after the deadline's date, the enrollment is active and its mode is in
\* UPSELL_TO_VERIFIED_MODES.
C9_CanShowVerifiedUpgrade ==
    upgrade.result # None =>
        LET u == upgrade
            r == upgrade.result[1]
        IN  IF u.enrollment = None THEN r = FALSE
            ELSE LET e == u.enrollment[1]
                 IN  r <=> /\ ~GroupModeNotUpsellable(u)
                           /\ e.upgrade_deadline # None
                           /\ DateOf(u.now) <= DateOf(e.upgrade_deadline[1])
                           /\ e.is_active
                           /\ e.mode \in u.upsell

C9_Witness ==
    /\ upgrade.result = Some(TRUE)
    /\ upgrade.group # None
    /\ \E i \in 1..Len(upgrade.modes) :
          upgrade.modes[i].id = upgrade.group[1] /\ upgrade.modes[i].slug # NoSlug
    /\ DateOf(upgrade.now) = DateOf(upgrade.enrollment[1].upgrade_deadline[1])
    /\ upgrade.now > upgrade.enrollment[1].upgrade_deadline[1]

\* C10: whatever the configuration and the response status, each of the three
\* financial-assistance functions returns a (flag, detail) pair.
C10_AlwaysResultPair ==
    fa # None => Len(fa[1].result) = 2

\* C11: each financial-assistance function returns
\* (False, 'Financial Assistance configuration is not enabled') exactly when
\* the configuration is not enabled, and then no HTTP request was sent.
C11_NotEnabledMessageIffDisabled ==
    fa # None =>
        /\ (fa[1].result = <<"False", NOT_ENABLED>>) <=> ~fa[1].enabled
        /\ ~fa[1].enabled => fa[1].response = None

====
